---- MODULE Spec2Model ----
(***************************************************************************)
(* TimeLedger: the event log (timeledger/db.py) and the WorkTracker state  *)
(* machine (timeledger/tracker.py).                                        *)
(*                                                                         *)
(* Instants are integers (seconds on the UTC clock); a calendar date is    *)
(* the day number of an instant.  A handler reads the clock several times  *)
(* (insert_event reads it, then the tracker reads it again for the instant *)
(* it keeps in memory); every read is modelled.  A handler runs in less    *)
(* than one clock unit, so the clock advances at most once while it runs.  *)
(***************************************************************************)
EXTENDS Integers, Sequences, FiniteSets, TLC

----------------------------------------------------------------------------
(* Bounds of the model *)

\* the clock runs from 0 to MaxNow
MaxNow == 3
\* length of a calendar day, in clock units
DayLen == 2
\* the event store holds at most MaxLog events
MaxLog == 4

----------------------------------------------------------------------------
(* Values *)

\* Optional[datetime] = None
None == -1

IDLE == "idle"
WORKING == "working"
PAUSED == "paused"
ENDED == "ended"
State == {IDLE, WORKING, PAUSED, ENDED}

START == "START"
PAUSE == "PAUSE"
RESUME == "RESUME"
END == "END"
Action == {START, PAUSE, RESUME, END}

\* a reason is a string, modelled as a sequence of characters
SP == " "
\* insert_event's reason: Optional[str] = None; a falsy reason stores no key
NoReason == << >>
\* event.get("reason", "No reason")
NoReasonText == <<"N", "o">>
\* the reasons a caller passes to pause_work
Reasons == { << >>, <<SP>>, <<"a">>, <<SP, "a", SP>>, <<"b">> }

Min(a, b) == IF a <= b THEN a ELSE b
Max(a, b) == IF a >= b THEN a ELSE b

VARIABLES
    \* the clock: the instant the next clock read returns
    now,
    \* the events collection, in insertion order
    log,
    \* the WorkTracker of the running process
    tracker,
    \* the last operation called and how it ended
    last,
    \* whether an instant the tracker holds was read later than the
    \* timestamp of the event appended with it
    drifted,
    \* the transition calls in progress when callers share the tracker:
    \* for each caller the method it is in and the line it has reached
    calls,
    \* whether reset_state was called since the process started
    declined

vars == <<now, log, tracker, last, drifted, declined, calls>>

----------------------------------------------------------------------------
(* Clock and dates *)

\* datetime.now().strftime("%Y-%m-%d"): the calendar date of an instant
DateOf(t) == t \div DayLen

\* the calendar dates of the model's instants
Dates == 0..DateOf(MaxNow)

\* the clock reads of one handler: k non-decreasing instants, the first one
\* now, the clock advancing at most once between them
ClockReads(k) ==
    { r \in [1..k -> now..Min(now + 1, MaxNow)] :
        /\ r[1] = now
        /\ \A i \in 1..(k - 1) : r[i] <= r[i + 1] }

\* now.isoformat().replace("+00:00", "Z")
isoformat(t) == <<t, "Z">>
\* datetime.fromisoformat(s.replace("Z", "+00:00"))
fromisoformat(s) == s[1]

\* str.strip(): drop leading and trailing whitespace
RECURSIVE lstrip(_)
lstrip(s) ==
    IF s # << >> /\ Head(s) = SP THEN lstrip(Tail(s)) ELSE s
RECURSIVE rstrip(_)
rstrip(s) ==
    IF s # << >> /\ s[Len(s)] = SP THEN rstrip(SubSeq(s, 1, Len(s) - 1)) ELSE s
\* a strip that drops the leading whitespace only
strip_leading_only(s) == lstrip(s)

strip(s) == rstrip(lstrip(s))

----------------------------------------------------------------------------
(* db.py: the event store *)

\* insert_event written as an upsert keyed on (date, action): a second event
\* of the same date and action overwrites the stored one
insert_event_upsert(l, action, date, reason, t) ==
    LET e == [date |-> date, timestamp |-> isoformat(t), action |-> action,
              reason |-> reason, created_at |-> t]
    IN  IF \E i \in 1..Len(l) : l[i].date = date /\ l[i].action = action
        THEN [i \in 1..Len(l) |->
                 IF l[i].date = date /\ l[i].action = action THEN e ELSE l[i]]
        ELSE Append(l, e)

\* insert_event stamping the event with the date of its own clock read
\* instead of the date it is given
insert_event_own_date(l, action, date, reason, t) ==
    Append(l, [date |-> DateOf(t),
               timestamp |-> isoformat(t),
               action |-> action,
               reason |-> reason,
               created_at |-> t])

\* insert_event(action, date, reason), the clock read returning t
insert_event(l, action, date, reason, t) ==
    Append(l, [date |-> date,
               timestamp |-> isoformat(t),
               action |-> action,
               reason |-> reason,
               created_at |-> t])

\* .sort("created_at", 1): ascending, ties in insertion order
RECURSIVE InsertSorted(_, _)
InsertSorted(s, e) ==
    IF s = << >> THEN <<e>>
    ELSE IF s[Len(s)].created_at <= e.created_at THEN Append(s, e)
    ELSE Append(InsertSorted(SubSeq(s, 1, Len(s) - 1), e), s[Len(s)])
RECURSIVE SortByCreatedAt(_)
SortByCreatedAt(s) ==
    IF s = << >> THEN << >>
    ELSE InsertSorted(SortByCreatedAt(SubSeq(s, 1, Len(s) - 1)), s[Len(s)])

Reverse(s) == [i \in 1..Len(s) |-> s[Len(s) + 1 - i]]

\* the query sorting with .sort("created_at", -1): newest first
get_events_for_date_desc(l, date) ==
    Reverse(SortByCreatedAt(SelectSeq(l, LAMBDA e : e.date = date)))

\* the query without its date filter
get_events_for_date_unfiltered(l, date) ==
    SortByCreatedAt(l)

\* collection.find({"date": date}).sort("created_at", 1)
get_events_for_date(l, date) ==
    SortByCreatedAt(SelectSeq(l, LAMBDA e : e.date = date))

\* get_today_events(), the clock read returning t
get_today_events(l, t) == get_events_for_date(l, DateOf(t))

----------------------------------------------------------------------------
(* tracker.py: WorkTracker *)

\* the fields __init__ sets before it restores
FreshTracker(date) ==
    [state |-> IDLE,
     current_date |-> date,
     work_start_time |-> None,
     work_end_time |-> None,
     pause_start_time |-> None,
     interval_start_time |-> None,
     total_break_seconds |-> 0,
     break_reasons |-> << >>]

\* event.get("reason", "No reason")
ReasonOf(event) ==
    IF event.reason = NoReason THEN NoReasonText ELSE event.reason

\* one iteration of _restore_state's loop that does not count the break an
\* END closes
RestoreEvent_end_ignores_pause(st, event) ==
    LET tr == st.tr
        pause_time == st.pause_time
        timestamp == fromisoformat(event.timestamp)
    IN  IF event.action = START THEN
            [tr |-> [tr EXCEPT !.work_start_time = timestamp,
                               !.state = WORKING],
             pause_time |-> pause_time]
        ELSE IF event.action = PAUSE THEN
            [tr |-> [tr EXCEPT !.state = PAUSED,
                               !.break_reasons =
                                   Append(@, ReasonOf(event))],
             pause_time |-> timestamp]
        ELSE IF event.action = RESUME THEN
            [tr |-> [tr EXCEPT !.total_break_seconds =
                                   IF pause_time # None
                                   THEN @ + (timestamp - pause_time) ELSE @,
                               !.state = WORKING,
                               !.interval_start_time = timestamp],
             pause_time |-> IF pause_time # None THEN None ELSE pause_time]
        ELSE IF event.action = END THEN
            [tr |-> [tr EXCEPT !.state = ENDED,
                               !.work_end_time = timestamp,
                               !.interval_start_time = None],
             pause_time |-> pause_time]
        ELSE st

\* one iteration of _restore_state's loop; st = [tr, pause_time]
RestoreEvent(st, event) ==
    LET tr == st.tr
        pause_time == st.pause_time
        timestamp == fromisoformat(event.timestamp)
    IN  IF event.action = START THEN
            [tr |-> [tr EXCEPT !.work_start_time = timestamp,
                               !.state = WORKING],
             pause_time |-> pause_time]
        ELSE IF event.action = PAUSE THEN
            [tr |-> [tr EXCEPT !.state = PAUSED,
                               !.break_reasons =
                                   Append(@, ReasonOf(event))],
             pause_time |-> timestamp]
        ELSE IF event.action = RESUME THEN
            [tr |-> [tr EXCEPT !.total_break_seconds =
                                   IF pause_time # None
                                   THEN @ + (timestamp - pause_time) ELSE @,
                               !.state = WORKING,
                               !.interval_start_time = timestamp],
             pause_time |-> IF pause_time # None THEN None ELSE pause_time]
        ELSE IF event.action = END THEN
            [tr |-> [tr EXCEPT !.total_break_seconds =
                                   IF pause_time # None
                                   THEN @ + (timestamp - pause_time) ELSE @,
                               !.state = ENDED,
                               !.work_end_time = timestamp,
                               !.interval_start_time = None],
             pause_time |-> pause_time]
        ELSE st

RECURSIVE RestoreLoop(_, _)
RestoreLoop(st, events) ==
    IF events = << >> THEN st
    ELSE RestoreLoop(RestoreEvent(st, Head(events)), Tail(events))

\* _restore_state whose new-day branch keeps the instants and the counters
_restore_state_keeps_counters(tr, l, t1, t2) ==
    LET today == DateOf(t1) IN
    IF tr.current_date # today THEN
        [tr EXCEPT !.current_date = today, !.state = IDLE]
    ELSE
        RestoreLoop([tr |-> tr, pause_time |-> None],
                    get_today_events(l, t2)).tr

\* _restore_state(): t1 is the clock read of line 74, t2 the one inside
\* get_today_events()
_restore_state(tr, l, t1, t2) ==
    LET today == DateOf(t1) IN
    IF tr.current_date # today THEN
        [FreshTracker(today) EXCEPT !.current_date = today]
    ELSE
        RestoreLoop([tr |-> tr, pause_time |-> None],
                    get_today_events(l, t2)).tr

\* get_elapsed_work_time(): t is its one clock read
get_elapsed_work_time(tr, t) ==
    IF tr.state = IDLE THEN 0
    ELSE IF tr.work_start_time = None THEN 0
    ELSE
        LET end_time == IF tr.state = ENDED /\ tr.work_end_time # None
                        THEN tr.work_end_time
                        ELSE t
            total_elapsed == end_time - tr.work_start_time
            work_time == total_elapsed - tr.total_break_seconds
            current_break == end_time - tr.pause_start_time
        IN  IF tr.state = PAUSED /\ tr.pause_start_time # None
            THEN Max(0, work_time - current_break)
            ELSE Max(0, work_time)

\* get_current_session_time(): t is its one clock read
get_current_session_time(tr, t) ==
    IF tr.state # WORKING \/ tr.interval_start_time = None THEN 0
    ELSE t - tr.interval_start_time

\* TimeStats(0, 0, 0, 0, [], None, None)
ZeroStats ==
    [total_span_seconds |-> 0,
     break_seconds |-> 0,
     work_seconds |-> 0,
     break_count |-> 0,
     break_reasons |-> << >>,
     first_start |-> None,
     last_end |-> None]

\* the loop of get_stats_for_date with an END that does not fold the pause
\* in progress
StatsEvent_end_ignores_pause(st, event) ==
    LET timestamp == fromisoformat(event.timestamp) IN
    IF event.action = START THEN
        [st EXCEPT !.first_start = timestamp]
    ELSE IF event.action = PAUSE THEN
        [st EXCEPT !.pause_time = timestamp,
                   !.break_count = @ + 1,
                   !.break_reasons = Append(@, ReasonOf(event))]
    ELSE IF event.action = RESUME THEN
        IF st.pause_time # None
        THEN [st EXCEPT !.total_break_seconds = @ + (timestamp - st.pause_time),
                        !.pause_time = None]
        ELSE st
    ELSE IF event.action = END THEN
        [st EXCEPT !.last_end = timestamp]
    ELSE st

\* the loop of get_stats_for_date with a PAUSE that also counts as the end
\* of the day
StatsEvent_pause_sets_end(st, event) ==
    LET timestamp == fromisoformat(event.timestamp) IN
    IF event.action = START THEN
        [st EXCEPT !.first_start = timestamp]
    ELSE IF event.action = PAUSE THEN
        [st EXCEPT !.pause_time = timestamp,
                   !.last_end = timestamp,
                   !.break_count = @ + 1,
                   !.break_reasons = Append(@, ReasonOf(event))]
    ELSE IF event.action = RESUME THEN
        IF st.pause_time # None
        THEN [st EXCEPT !.total_break_seconds = @ + (timestamp - st.pause_time),
                        !.pause_time = None]
        ELSE st
    ELSE IF event.action = END THEN
        [st EXCEPT !.last_end = timestamp,
                   !.total_break_seconds =
                       IF st.pause_time # None
                       THEN @ + (timestamp - st.pause_time) ELSE @]
    ELSE st

\* one iteration of get_stats_for_date's loop
StatsEvent(st, event) ==
    LET timestamp == fromisoformat(event.timestamp) IN
    IF event.action = START THEN
        [st EXCEPT !.first_start = timestamp]
    ELSE IF event.action = PAUSE THEN
        [st EXCEPT !.pause_time = timestamp,
                   !.break_count = @ + 1,
                   !.break_reasons = Append(@, ReasonOf(event))]
    ELSE IF event.action = RESUME THEN
        IF st.pause_time # None
        THEN [st EXCEPT !.total_break_seconds = @ + (timestamp - st.pause_time),
                        !.pause_time = None]
        ELSE st
    ELSE IF event.action = END THEN
        [st EXCEPT !.last_end = timestamp,
                   !.total_break_seconds =
                       IF st.pause_time # None
                       THEN @ + (timestamp - st.pause_time) ELSE @]
    ELSE st

RECURSIVE StatsLoop(_, _)
StatsLoop(st, events) ==
    IF events = << >> THEN st
    ELSE StatsLoop(StatsEvent(st, Head(events)), Tail(events))

\* get_stats_for_date(date)
get_stats_for_date(l, date) ==
    LET events == get_events_for_date(l, date)
        st == StatsLoop([first_start |-> None, last_end |-> None,
                         pause_time |-> None, total_break_seconds |-> 0,
                         break_count |-> 0, break_reasons |-> << >>],
                        events)
        total_span_seconds ==
            IF st.first_start # None /\ st.last_end # None
            THEN st.last_end - st.first_start ELSE 0
        work_seconds == total_span_seconds - st.total_break_seconds
    IN  IF events = << >> THEN ZeroStats
        ELSE [total_span_seconds |-> total_span_seconds,
              break_seconds |-> st.total_break_seconds,
              work_seconds |-> Max(0, work_seconds),
              break_count |-> st.break_count,
              break_reasons |-> st.break_reasons,
              first_start |-> st.first_start,
              last_end |-> st.last_end]

\* get_events_for_range(start_date, end_date): the events whose date lies
\* in [start_date, end_date], sorted by date, then timestamp
RECURSIVE InsertSortedRange(_, _)
InsertSortedRange(s, e) ==
    IF s = << >> THEN <<e>>
    ELSE IF \/ s[Len(s)].date < e.date
            \/ /\ s[Len(s)].date = e.date
               /\ fromisoformat(s[Len(s)].timestamp) <= fromisoformat(e.timestamp)
         THEN Append(s, e)
    ELSE Append(InsertSortedRange(SubSeq(s, 1, Len(s) - 1), e), s[Len(s)])
RECURSIVE SortByDateTimestamp(_)
SortByDateTimestamp(s) ==
    IF s = << >> THEN << >>
    ELSE InsertSortedRange(SortByDateTimestamp(SubSeq(s, 1, Len(s) - 1)),
                           s[Len(s)])
get_events_for_range(l, start_date, end_date) ==
    SortByDateTimestamp(
        SelectSeq(l, LAMBDA e : start_date <= e.date /\ e.date <= end_date))

\* the keys of events_by_date with the date met last put first
RECURSIVE BucketDates_newest_first(_, _)
BucketDates_newest_first(events, seen) ==
    IF events = << >> THEN seen
    ELSE BucketDates_newest_first(
             Tail(events),
             IF \E i \in 1..Len(seen) : seen[i] = Head(events).date
             THEN seen ELSE <<Head(events).date>> \o seen)

\* the keys of events_by_date, in the order the loop inserts them
RECURSIVE BucketDates(_, _)
BucketDates(events, seen) ==
    IF events = << >> THEN seen
    ELSE BucketDates(Tail(events),
                     IF \E i \in 1..Len(seen) : seen[i] = Head(events).date
                     THEN seen ELSE Append(seen, Head(events).date))

\* one iteration of get_stats_for_range's inner loop; acc holds the totals
\* of the range and the d_ variables of the date being replayed
RangeEvent(acc, event) ==
    LET ts == fromisoformat(event.timestamp) IN
    IF event.action = START THEN
        [acc EXCEPT !.d_first_start = IF @ = None THEN ts ELSE @,
                    !.first_start = IF @ = None \/ ts < @ THEN ts ELSE @]
    ELSE IF event.action = PAUSE THEN
        [acc EXCEPT !.d_pause_time = ts,
                    !.d_break_count = @ + 1,
                    !.all_reasons = Append(@, ReasonOf(event))]
    ELSE IF event.action = RESUME THEN
        IF acc.d_pause_time # None
        THEN [acc EXCEPT !.d_break_seconds = @ + (ts - acc.d_pause_time),
                         !.d_pause_time = None]
        ELSE acc
    ELSE IF event.action = END THEN
        [acc EXCEPT !.d_last_end = ts,
                    !.last_end = IF @ = None \/ ts > @ THEN ts ELSE @,
                    !.d_break_seconds =
                        IF acc.d_pause_time # None
                        THEN @ + (ts - acc.d_pause_time) ELSE @]
    ELSE acc

RECURSIVE RangeEvents(_, _)
RangeEvents(acc, events) ==
    IF events = << >> THEN acc
    ELSE RangeEvents(RangeEvent(acc, Head(events)), Tail(events))

\* one iteration of get_stats_for_range's loop over events_by_date
RangeDate(acc, date_events) ==
    LET d == RangeEvents([acc EXCEPT !.d_first_start = None,
                                     !.d_last_end = None,
                                     !.d_pause_time = None,
                                     !.d_break_seconds = 0,
                                     !.d_break_count = 0],
                         date_events)
    IN  IF d.d_first_start # None /\ d.d_last_end # None
        THEN [d EXCEPT !.total_work_seconds =
                           @ + Max(0, (d.d_last_end - d.d_first_start)
                                      - d.d_break_seconds),
                       !.total_break_seconds = @ + d.d_break_seconds,
                       !.total_break_count = @ + d.d_break_count]
        ELSE d

RECURSIVE RangeDates(_, _, _)
RangeDates(acc, dates, events) ==
    IF dates = << >> THEN acc
    ELSE RangeDates(RangeDate(acc, SelectSeq(events,
                                      LAMBDA e : e.date = Head(dates))),
                    Tail(dates), events)

\* get_stats_for_range reporting the wall-clock distance between the extremes
\* as its span
get_stats_for_range_wall_clock(l, start_date, end_date) ==
    LET events == get_events_for_range(l, start_date, end_date)
        acc == RangeDates([total_work_seconds |-> 0,
                           total_break_seconds |-> 0,
                           total_break_count |-> 0,
                           all_reasons |-> << >>,
                           first_start |-> None,
                           last_end |-> None,
                           d_first_start |-> None,
                           d_last_end |-> None,
                           d_pause_time |-> None,
                           d_break_seconds |-> 0,
                           d_break_count |-> 0],
                          BucketDates(events, << >>), events)
    IN  IF events = << >> THEN ZeroStats
        ELSE [total_span_seconds |->
                  IF acc.first_start # None /\ acc.last_end # None
                  THEN acc.last_end - acc.first_start ELSE 0,
              break_seconds |-> acc.total_break_seconds,
              work_seconds |-> acc.total_work_seconds,
              break_count |-> acc.total_break_count,
              break_reasons |-> acc.all_reasons,
              first_start |-> acc.first_start,
              last_end |-> acc.last_end]

\* get_stats_for_range(start_date, end_date)
get_stats_for_range(l, start_date, end_date) ==
    LET events == get_events_for_range(l, start_date, end_date)
        acc == RangeDates([total_work_seconds |-> 0,
                           total_break_seconds |-> 0,
                           total_break_count |-> 0,
                           all_reasons |-> << >>,
                           first_start |-> None,
                           last_end |-> None,
                           d_first_start |-> None,
                           d_last_end |-> None,
                           d_pause_time |-> None,
                           d_break_seconds |-> 0,
                           d_break_count |-> 0],
                          BucketDates(events, << >>), events)
    IN  IF events = << >> THEN ZeroStats
        ELSE [total_span_seconds |->
                  acc.total_work_seconds + acc.total_break_seconds,
              break_seconds |-> acc.total_break_seconds,
              work_seconds |-> acc.total_work_seconds,
              break_count |-> acc.total_break_count,
              break_reasons |-> acc.all_reasons,
              first_start |-> acc.first_start,
              last_end |-> acc.last_end]

\* start_work without its state guard
StartAllowedAlways(s) == TRUE
\* end_day's guard refusing only an ended day
EndAllowedUnlessEnded(s) == s # ENDED

\* start_work's guard also letting a new session start after the day ended
StartAllowedAfterEnd(s) == s \in {IDLE, ENDED}

\* can_end answering for WORKING only
can_end_working_only(tr) == tr.state = WORKING

\* can_start(), can_pause(), can_resume(), can_end()
can_start(tr) == tr.state = IDLE
can_pause(tr) == tr.state = WORKING
can_resume(tr) == tr.state = PAUSED
can_end(tr) == tr.state \in {WORKING, PAUSED}

\* the guards of the four transitions
StartAllowed(s) == s = IDLE
PauseAllowed(s) == s = WORKING
ResumeAllowed(s) == s = PAUSED
EndAllowed(s) == s \in {WORKING, PAUSED}

Called(op, result) == [op |-> op, result |-> result]

\* the test without the strip: not reason
ReasonEmpty(reason) == reason = << >>

\* pause_work's test of its argument: not reason or not reason.strip()
ReasonMissing(reason) == reason = << >> \/ strip(reason) = << >>

\* whether the clock moved between the first and the last read of a handler
Drift(r, k) == r[1] # r[k]

\* WorkTracker(): a process start; __init__ reads the clock for current_date,
\* _restore_state reads it for today, get_today_events reads it again
WorkTracker ==
    \E r \in ClockReads(3) :
        /\ tracker' = _restore_state(FreshTracker(DateOf(r[1])), log, r[2], r[3])
        /\ now' = r[3]
        /\ last' = Called("WorkTracker", "ok")
        /\ drifted' = FALSE
        /\ declined' = FALSE
        /\ UNCHANGED <<log, calls>>

\* start_work(): reads the clock in _get_today, in insert_event and for
\* work_start_time
start_work ==
    \/ /\ ~StartAllowed(tracker.state)
       /\ last' = Called("start_work", "InvalidTransitionError")
       /\ UNCHANGED <<now, log, tracker, drifted, declined, calls>>
    \/ /\ StartAllowed(tracker.state)
       /\ \E r \in ClockReads(3) :
            LET date == DateOf(r[1]) IN
            \/ \* insert_event raises
               /\ tracker' = [tracker EXCEPT !.current_date = date]
               /\ now' = r[2]
               /\ last' = Called("start_work", "StorageError")
               /\ UNCHANGED <<log, drifted, declined, calls>>
            \/ /\ Len(log) < MaxLog
               /\ log' = insert_event(log, START, date, NoReason, r[2])
               /\ tracker' = [tracker EXCEPT !.current_date = date,
                                             !.state = WORKING,
                                             !.work_start_time = r[3],
                                             !.interval_start_time = r[3],
                                             !.work_end_time = None]
               /\ now' = r[3]
               /\ last' = Called("start_work", "ok")
               /\ drifted' = (drifted \/ r[2] # r[3])
               /\ UNCHANGED <<declined, calls>>

\* pause_work checking the reason before the state
pause_work_reason_first(reason) ==
        \/ /\ ReasonMissing(reason)
           /\ last' = Called("pause_work", "ValueError")
           /\ UNCHANGED <<now, log, tracker, drifted, declined, calls>>
        \/ /\ ~ReasonMissing(reason)
           /\ ~PauseAllowed(tracker.state)
           /\ last' = Called("pause_work", "InvalidTransitionError")
           /\ UNCHANGED <<now, log, tracker, drifted, declined, calls>>
        \/ /\ PauseAllowed(tracker.state)
           /\ ~ReasonMissing(reason)
           /\ \E r \in ClockReads(2) :
                \/ \* insert_event raises
                   /\ now' = r[1]
                   /\ last' = Called("pause_work", "StorageError")
                   /\ UNCHANGED <<log, tracker, drifted, declined, calls>>
                \/ /\ Len(log) < MaxLog
                   /\ log' = insert_event(log, PAUSE, tracker.current_date,
                                          strip(reason), r[1])
                   /\ tracker' = [tracker EXCEPT
                                      !.state = PAUSED,
                                      !.pause_start_time = r[2],
                                      !.interval_start_time = None,
                                      !.break_reasons = Append(@, strip(reason))]
                   /\ now' = r[2]
                   /\ last' = Called("pause_work", "ok")
                   /\ drifted' = (drifted \/ Drift(r, 2))
                   /\ UNCHANGED <<declined, calls>>

\* pause_work(reason): reads the clock in insert_event and for
\* pause_start_time
pause_work_with(reason) ==
        \/ /\ ~PauseAllowed(tracker.state)
           /\ last' = Called("pause_work", "InvalidTransitionError")
           /\ UNCHANGED <<now, log, tracker, drifted, declined, calls>>
        \/ /\ PauseAllowed(tracker.state)
           /\ ReasonMissing(reason)
           /\ last' = Called("pause_work", "ValueError")
           /\ UNCHANGED <<now, log, tracker, drifted, declined, calls>>
        \/ /\ PauseAllowed(tracker.state)
           /\ ~ReasonMissing(reason)
           /\ \E r \in ClockReads(2) :
                \/ \* insert_event raises
                   /\ now' = r[1]
                   /\ last' = Called("pause_work", "StorageError")
                   /\ UNCHANGED <<log, tracker, drifted, declined, calls>>
                \/ /\ Len(log) < MaxLog
                   /\ log' = insert_event(log, PAUSE, tracker.current_date,
                                          strip(reason), r[1])
                   /\ tracker' = [tracker EXCEPT
                                      !.state = PAUSED,
                                      !.pause_start_time = r[2],
                                      !.interval_start_time = None,
                                      !.break_reasons = Append(@, strip(reason))]
                   /\ now' = r[2]
                   /\ last' = Called("pause_work", "ok")
                   /\ drifted' = (drifted \/ Drift(r, 2))
                   /\ UNCHANGED <<declined, calls>>

pause_work == \E reason \in Reasons : pause_work_with(reason)

\* resume_work(): reads the clock in insert_event, for break_duration and
\* for interval_start_time
resume_work ==
    \/ /\ ~ResumeAllowed(tracker.state)
       /\ last' = Called("resume_work", "InvalidTransitionError")
       /\ UNCHANGED <<now, log, tracker, drifted, declined, calls>>
    \/ /\ ResumeAllowed(tracker.state)
       /\ \E r \in ClockReads(3) :
            \/ \* insert_event raises
               /\ now' = r[1]
               /\ last' = Called("resume_work", "StorageError")
               /\ UNCHANGED <<log, tracker, drifted, declined, calls>>
            \/ /\ Len(log) < MaxLog
               /\ log' = insert_event(log, RESUME, tracker.current_date,
                                      NoReason, r[1])
               /\ tracker' = [tracker EXCEPT
                                  !.total_break_seconds =
                                      IF tracker.pause_start_time # None
                                      THEN @ + (r[2] - tracker.pause_start_time)
                                      ELSE @,
                                  !.state = WORKING,
                                  !.pause_start_time = None,
                                  !.interval_start_time = r[3]]
               /\ now' = r[3]
               /\ last' = Called("resume_work", "ok")
               /\ drifted' = (drifted \/ Drift(r, 3))
               /\ UNCHANGED <<declined, calls>>

\* end_day that stores its END under the date of the clock
end_day_under_today ==
    \/ /\ ~EndAllowed(tracker.state)
       /\ last' = Called("end_day", "InvalidTransitionError")
       /\ UNCHANGED <<now, log, tracker, drifted, declined, calls>>
    \/ /\ EndAllowed(tracker.state)
       /\ \E r \in ClockReads(3) :
            LET folded ==
                    IF tracker.state = PAUSED /\ tracker.pause_start_time # None
                    THEN [tracker EXCEPT !.total_break_seconds =
                              @ + (r[1] - tracker.pause_start_time)]
                    ELSE tracker
            IN
            \/ /\ folded.total_break_seconds <= MaxNow
               /\ tracker' = folded
               /\ now' = r[2]
               /\ last' = Called("end_day", "StorageError")
               /\ UNCHANGED <<log, drifted, declined, calls>>
            \/ /\ Len(log) < MaxLog
               /\ log' = insert_event(log, END, DateOf(r[2]), NoReason, r[2])
               /\ tracker' = [folded EXCEPT !.state = ENDED,
                                            !.work_end_time = r[3],
                                            !.interval_start_time = None]
               /\ now' = r[3]
               /\ last' = Called("end_day", "ok")
               /\ drifted' = (drifted \/ Drift(r, 3))
               /\ UNCHANGED <<declined, calls>>

\* end_day(): reads the clock for break_duration (when paused), in
\* insert_event and for work_end_time
end_day ==
    \/ /\ ~EndAllowed(tracker.state)
       /\ last' = Called("end_day", "InvalidTransitionError")
       /\ UNCHANGED <<now, log, tracker, drifted, declined, calls>>
    \/ /\ EndAllowed(tracker.state)
       /\ \E r \in ClockReads(3) :
            LET folded ==
                    IF tracker.state = PAUSED /\ tracker.pause_start_time # None
                    THEN [tracker EXCEPT !.total_break_seconds =
                              @ + (r[1] - tracker.pause_start_time)]
                    ELSE tracker
            IN
            \/ \* insert_event raises
               /\ folded.total_break_seconds <= MaxNow
               /\ tracker' = folded
               /\ now' = r[2]
               /\ last' = Called("end_day", "StorageError")
               /\ UNCHANGED <<log, drifted, declined, calls>>
            \/ /\ Len(log) < MaxLog
               /\ log' = insert_event(log, END, tracker.current_date,
                                      NoReason, r[2])
               /\ tracker' = [folded EXCEPT !.state = ENDED,
                                            !.work_end_time = r[3],
                                            !.interval_start_time = None]
               /\ now' = r[3]
               /\ last' = Called("end_day", "ok")
               /\ drifted' = (drifted \/ Drift(r, 3))
               /\ UNCHANGED <<declined, calls>>

\* reset_state that clears the counters and leaves the instants
reset_state_keeps_instants ==
    /\ tracker' = [tracker EXCEPT !.state = IDLE,
                                  !.total_break_seconds = 0,
                                  !.break_reasons = << >>]
    /\ last' = Called("reset_state", "ok")
    /\ drifted' = FALSE
    /\ declined' = TRUE
    /\ UNCHANGED <<now, log, calls>>

\* reset_state that forgets the break counters
reset_state_keeps_breaks ==
    /\ tracker' = [tracker EXCEPT !.state = IDLE,
                                  !.work_start_time = None,
                                  !.work_end_time = None,
                                  !.pause_start_time = None,
                                  !.interval_start_time = None]
    /\ last' = Called("reset_state", "ok")
    /\ drifted' = FALSE
    /\ declined' = TRUE
    /\ UNCHANGED <<now, log, calls>>

\* reset_state(): the restored session is declined
reset_state ==
    /\ tracker' = [tracker EXCEPT !.state = IDLE,
                                  !.work_start_time = None,
                                  !.work_end_time = None,
                                  !.pause_start_time = None,
                                  !.interval_start_time = None,
                                  !.total_break_seconds = 0,
                                  !.break_reasons = << >>]
    /\ last' = Called("reset_state", "ok")
    /\ drifted' = FALSE
    /\ declined' = TRUE
    /\ UNCHANGED <<now, log, calls>>

\* get_stats_for_date that keeps the break total it computed in the tracker
stats_for_date_caches ==
    /\ tracker' = [tracker EXCEPT !.total_break_seconds =
                       get_stats_for_date(log, tracker.current_date).break_seconds]
    /\ last' = Called("get_stats_for_date", "ok")
    /\ UNCHANGED <<now, log, drifted, declined, calls>>

\* get_stats_for_date(date), called for any date: reads the log only; what
\* it returns is get_stats_for_date(log, date)
stats_for_date ==
    /\ last' = Called("get_stats_for_date", "ok")
    /\ UNCHANGED <<now, log, tracker, drifted, declined, calls>>

\* get_stats_for_range(start_date, end_date), called for any range: reads
\* the log only
stats_for_range ==
    /\ last' = Called("get_stats_for_range", "ok")
    /\ UNCHANGED <<now, log, tracker, drifted, declined, calls>>

\* time passes
Tick ==
    /\ now < MaxNow
    /\ now' = now + 1
    /\ last' = Called("tick", "ok")
    /\ UNCHANGED <<log, tracker, drifted, declined, calls>>

\* the callers that may share one tracker
Callers == {"c1", "c2"}

\* a caller that is in no transition method
NoCall == [op |-> "none", pc |-> "idle", reason |-> NoReason]

\* the first process start, on an empty event store
Init ==
    /\ now = 0
    /\ log = << >>
    /\ tracker = FreshTracker(DateOf(0))
    /\ last = Called("WorkTracker", "ok")
    /\ drifted = FALSE
    /\ declined = FALSE
    /\ calls = [c \in Callers |-> NoCall]

Next ==
    \/ WorkTracker
    \/ start_work
    \/ pause_work
    \/ resume_work
    \/ end_day
    \/ reset_state
    \/ stats_for_date
    \/ stats_for_range
    \/ Tick

Spec == Init /\ [][Next]_vars

\* _restore_state() called on the tracker of the running process
restore_again ==
    \E r \in ClockReads(2) :
        LET restored == _restore_state(tracker, log, r[1], r[2]) IN
        /\ Len(restored.break_reasons) <= MaxLog
        /\ restored.total_break_seconds <= MaxNow
        /\ tracker' = restored
        /\ now' = r[2]
        /\ last' = Called("_restore_state", "ok")
        /\ UNCHANGED <<log, drifted, declined, calls>>

NextReplay == Next \/ restore_again

\* the tracker with _restore_state callable at any time
SpecReplay == Init /\ [][NextReplay]_vars

\* _update_button_states(): the window asks the four predicates and enables
\* the buttons accordingly
_update_button_states ==
    /\ last' = [op |-> "_update_button_states",
                result |-> "ok",
                enabled |-> [start |-> can_start(tracker),
                             pause |-> can_pause(tracker),
                             resume |-> can_resume(tracker),
                             end |-> can_end(tracker)]]
    /\ UNCHANGED <<now, log, tracker, drifted, declined, calls>>

NextButtons ==
    \/ WorkTracker
    \/ start_work
    \/ pause_work
    \/ resume_work
    \/ end_day
    \/ reset_state
    \/ _update_button_states
    \/ Tick

\* the tracker behind the window's four buttons
SpecButtons == Init /\ [][NextButtons]_vars

NextRestore ==
    \/ WorkTracker
    \/ start_work
    \/ pause_work
    \/ resume_work
    \/ end_day
    \/ restore_again
    \/ Tick

\* the tracker's transitions with _restore_state callable at any time
SpecRestore == Init /\ [][NextRestore]_vars

----------------------------------------------------------------------------
(* The transition methods called by two callers on one tracker; the methods
   take no lock, so a caller can be scheduled between the lines of another:
   each method runs in three steps, the lines up to its insert_event call,
   the insert, and the assignments after it *)

\* caller c is in no method
Idle(c) == calls[c].pc = "idle"

\* caller c has passed the lines before insert_event
Enter(c, op, reason) ==
    /\ calls' = [calls EXCEPT ![c] = [op |-> op, pc |-> "insert",
                                      reason |-> reason]]
    /\ UNCHANGED <<now, log, last, drifted, declined>>

\* caller c is refused before insert_event: the method raises and nothing
\* is assigned
Refuse(c, op, result) ==
    /\ calls[c].pc = "idle"
    /\ UNCHANGED vars

\* start_work up to insert_event: the guard and current_date
start_work_enter(c) ==
    /\ Idle(c)
    /\ \/ /\ ~StartAllowed(tracker.state)
          /\ Refuse(c, "start_work", "InvalidTransitionError")
       \/ /\ StartAllowed(tracker.state)
          /\ tracker' = [tracker EXCEPT !.current_date = DateOf(now)]
          /\ Enter(c, "start_work", NoReason)

\* pause_work up to insert_event: the guard, the reason check and the strip
pause_work_enter(c) ==
    /\ Idle(c)
    /\ \E reason \in Reasons :
          \/ /\ ~PauseAllowed(tracker.state)
             /\ Refuse(c, "pause_work", "InvalidTransitionError")
          \/ /\ PauseAllowed(tracker.state)
             /\ ReasonMissing(reason)
             /\ Refuse(c, "pause_work", "ValueError")
          \/ /\ PauseAllowed(tracker.state)
             /\ ~ReasonMissing(reason)
             /\ tracker' = tracker
             /\ Enter(c, "pause_work", strip(reason))

\* resume_work up to insert_event: the guard
resume_work_enter(c) ==
    /\ Idle(c)
    /\ \/ /\ ~ResumeAllowed(tracker.state)
          /\ Refuse(c, "resume_work", "InvalidTransitionError")
       \/ /\ ResumeAllowed(tracker.state)
          /\ tracker' = tracker
          /\ Enter(c, "resume_work", NoReason)

\* end_day up to insert_event: the guard and the fold of the pause in
\* progress
end_day_enter(c) ==
    /\ Idle(c)
    /\ \/ /\ ~EndAllowed(tracker.state)
          /\ Refuse(c, "end_day", "InvalidTransitionError")
       \/ /\ EndAllowed(tracker.state)
          /\ tracker' =
                IF tracker.state = PAUSED /\ tracker.pause_start_time # None
                THEN [tracker EXCEPT !.total_break_seconds =
                                         @ + (now - tracker.pause_start_time)]
                ELSE tracker
          /\ Enter(c, "end_day", NoReason)

\* the event each method appends
ActionOf(op) ==
    IF op = "start_work" THEN START
    ELSE IF op = "pause_work" THEN PAUSE
    ELSE IF op = "resume_work" THEN RESUME
    ELSE END

\* the insert_event call of the method caller c is in
call_insert_event(c) ==
    /\ calls[c].pc = "insert"
    /\ Len(log) < MaxLog
    /\ log' = insert_event(log, ActionOf(calls[c].op), tracker.current_date,
                           calls[c].reason, now)
    /\ calls' = [calls EXCEPT ![c].pc = "update"]
    /\ UNCHANGED <<now, tracker, last, drifted, declined>>

\* the assignments each method makes after insert_event returned
AfterInsert(tr, op, reason, t) ==
    IF op = "start_work" THEN
        [tr EXCEPT !.state = WORKING,
                   !.work_start_time = t,
                   !.interval_start_time = t,
                   !.work_end_time = None]
    ELSE IF op = "pause_work" THEN
        [tr EXCEPT !.state = PAUSED,
                   !.pause_start_time = t,
                   !.interval_start_time = None,
                   !.break_reasons = Append(@, reason)]
    ELSE IF op = "resume_work" THEN
        [tr EXCEPT !.total_break_seconds =
                       IF tr.pause_start_time # None
                       THEN @ + (t - tr.pause_start_time) ELSE @,
                   !.state = WORKING,
                   !.pause_start_time = None,
                   !.interval_start_time = t]
    ELSE
        [tr EXCEPT !.state = ENDED,
                   !.work_end_time = t,
                   !.interval_start_time = None]

\* caller c runs the rest of its method and returns
call_return(c) ==
    /\ calls[c].pc = "update"
    /\ tracker' = AfterInsert(tracker, calls[c].op, calls[c].reason, now)
    /\ last' = Called(calls[c].op, "ok")
    /\ calls' = [calls EXCEPT ![c] = NoCall]
    /\ UNCHANGED <<now, log, drifted, declined>>

NextConcurrent ==
    \/ \E c \in Callers : start_work_enter(c)
    \/ \E c \in Callers : pause_work_enter(c)
    \/ \E c \in Callers : resume_work_enter(c)
    \/ \E c \in Callers : end_day_enter(c)
    \/ \E c \in Callers : call_insert_event(c)
    \/ \E c \in Callers : call_return(c)
    \/ Tick

\* one tracker shared by two callers, the store always accepting the append
SpecConcurrent == Init /\ [][NextConcurrent]_vars

NextStats ==
    \/ start_work
    \/ pause_work
    \/ resume_work
    \/ end_day
    \/ reset_state
    \/ stats_for_date
    \/ stats_for_range
    \/ Tick

\* one process from its start on: the transitions, reset_state and the
\* statistics read from the log they leave
SpecStats == Init /\ [][NextStats]_vars

NextRange ==
    \/ start_work
    \/ pause_work
    \/ resume_work
    \/ end_day
    \/ reset_state
    \/ stats_for_range
    \/ Tick

\* one process from its start on: the transitions, reset_state and the
\* statistics of a date range read from the log they leave
SpecRange == Init /\ [][NextRange]_vars

----------------------------------------------------------------------------
(* Properties *)

Transitions == {"start_work", "pause_work", "resume_work", "end_day"}

IsPrefix(s, t) == Len(s) <= Len(t) /\ SubSeq(t, 1, Len(s)) = s

Blank(reason) == \A i \in 1..Len(reason) : reason[i] = SP

\* the tracker a new process builds from the log now
Replayed == _restore_state(FreshTracker(DateOf(now)), log, now, now)

\* C1: the four transition operations change state only along IDLE->WORKING
\* (start_work), WORKING->PAUSED (pause_work, its reason non-blank),
\* PAUSED->WORKING (resume_work), WORKING->ENDED and PAUSED->ENDED (end_day)
C1_StateChangesAlongEdges ==
    [][(last'.op \in Transitions /\ tracker'.state # tracker.state) =>
          \/ /\ last'.op = "start_work"
             /\ tracker.state = IDLE /\ tracker'.state = WORKING
          \/ /\ last'.op = "pause_work"
             /\ tracker.state = WORKING /\ tracker'.state = PAUSED
             /\ Len(log') = Len(log) + 1
             /\ ~Blank(log'[Len(log')].reason)
          \/ /\ last'.op = "resume_work"
             /\ tracker.state = PAUSED /\ tracker'.state = WORKING
          \/ /\ last'.op = "end_day"
             /\ tracker.state \in {WORKING, PAUSED} /\ tracker'.state = ENDED
      ]_vars

\* a day that went START, PAUSE, RESUME, END
C1_Witness ==
    /\ last = Called("end_day", "ok")
    /\ tracker.state = ENDED
    /\ Len(tracker.break_reasons) = 1
    /\ tracker.interval_start_time = None
    /\ Len(log) = 4
    /\ [i \in 1..4 |-> log[i].action] = <<START, PAUSE, RESUME, END>>

\* C2: a transition called outside its precondition fails with
\* InvalidTransitionError, changes no field of the tracker and appends no event
C2_OutsidePreconditionRefused ==
    [][(\/ last'.op = "start_work" /\ tracker.state # IDLE
        \/ last'.op = "pause_work" /\ tracker.state # WORKING
        \/ last'.op = "resume_work" /\ tracker.state # PAUSED
        \/ last'.op = "end_day" /\ tracker.state \in {IDLE, ENDED}) =>
          /\ last'.result = "InvalidTransitionError"
          /\ tracker' = tracker
          /\ log' = log
      ]_vars

\* end_day refused before any session was started
C2_Witness ==
    /\ last = Called("end_day", "InvalidTransitionError")
    /\ tracker.state = IDLE
    /\ log = << >>

\* C3: while WORKING, pause_work with an empty or whitespace-only reason
\* fails with ValueError, changes no field of the tracker and appends no event
C3_BlankReasonRefused ==
    [][\A reason \in Reasons :
          (tracker.state = WORKING /\ Blank(reason) /\ pause_work_with(reason)) =>
              /\ last'.result = "ValueError"
              /\ tracker' = tracker
              /\ tracker'.state = WORKING
              /\ log' = log
      ]_vars

\* a blank reason was refused while working
C3_Witness ==
    /\ last = Called("pause_work", "ValueError")
    /\ tracker.state = WORKING

\* C4: when the append fails, the transition fails and every field of the
\* tracker keeps its value
C4_FailedAppendLeavesTracker ==
    [][last'.result = "StorageError" => tracker' = tracker]_vars

\* the tracker that replaying the events of one date from a fresh tracker
\* gives
ReplayedFor(date) ==
    RestoreLoop([tr |-> FreshTracker(date), pause_time |-> None],
                get_events_for_date(log, date)).tr

\* C5: after live transitions on one date, a new tracker restoring from the
\* log has the state of the live tracker: the tracker a new process builds
\* while that date is today, and the replay of that date's events at any time
C5_ReplayedStateIsLiveState ==
    /\ (~declined /\ tracker.current_date = DateOf(now)) =>
           Replayed.state = tracker.state
    /\ (~declined /\ tracker.state # IDLE) =>
           ReplayedFor(tracker.current_date).state = tracker.state

\* a live pause after a resume: the pause instant is held in memory, which
\* a restored tracker never has
C5_Witness ==
    /\ ~declined
    /\ tracker.current_date = DateOf(now)
    /\ last = Called("pause_work", "ok")
    /\ tracker.state = PAUSED
    /\ tracker.pause_start_time # None
    /\ Len(tracker.break_reasons) = 2

\* C6: after live transitions on today's date, a new tracker restoring from
\* the log has every field of the live tracker (the instants in memory being
\* those of the events)
C6_ReplayedTrackerIsLiveTracker ==
    (~declined /\ ~drifted /\ tracker.current_date = DateOf(now)) =>
        Replayed = tracker

\* C7: _restore_state run a second time, the log and the date unchanged,
\* leaves every field of the tracker as the first run left it
C7_RestoreIdempotent ==
    [][(/\ last.op \in {"WorkTracker", "_restore_state"}
        /\ last'.op = "_restore_state"
        /\ log' = log
        /\ DateOf(now) = tracker.current_date
        /\ DateOf(now') = tracker.current_date) =>
          tracker' = tracker
      ]_vars

\* a legal sequence of the state machine, from state s
RECURSIVE LegalFrom(_, _)
LegalFrom(s, events) ==
    IF events = << >> THEN TRUE
    ELSE LET a == Head(events).action
             rest == Tail(events)
         IN  \/ s = IDLE /\ a = START /\ LegalFrom(WORKING, rest)
             \/ s = WORKING /\ a = PAUSE /\ LegalFrom(PAUSED, rest)
             \/ s = WORKING /\ a = END /\ LegalFrom(ENDED, rest)
             \/ s = PAUSED /\ a = RESUME /\ LegalFrom(WORKING, rest)
             \/ s = PAUSED /\ a = END /\ LegalFrom(ENDED, rest)

\* C8: the events stored for each date form a legal sequence: START first,
\* then alternating PAUSE/RESUME, at most one END, nothing after END
C8_LogLegalPerDate ==
    \A date \in Dates : LegalFrom(IDLE, get_events_for_date(log, date))

\* C9: the log before a step is a prefix of the log after it
C9_AppendOnly ==
    [][IsPrefix(log, log')]_vars

\* a second PAUSE of one date was appended after the first
C9_Witness ==
    /\ Len(log) = 4
    /\ log[2].action = PAUSE /\ log[4].action = PAUSE
    /\ log[2].date = log[4].date
    /\ last = Called("pause_work", "ok")

\* C10: a successful start_work, pause_work, resume_work or end_day appends
\* exactly one event, of action START, PAUSE, RESUME or END and of the
\* tracker's current_date; no other operation appends an event
C10_OneEventPerTransition ==
    [][/\ (last'.op \in Transitions /\ last'.result = "ok") =>
              /\ Len(log') = Len(log) + 1
              /\ SubSeq(log', 1, Len(log)) = log
              /\ log'[Len(log')].date = tracker'.current_date
              /\ log'[Len(log')].action =
                     CASE last'.op = "start_work" -> START
                       [] last'.op = "pause_work" -> PAUSE
                       [] last'.op = "resume_work" -> RESUME
                       [] last'.op = "end_day" -> END
       /\ ~(last'.op \in Transitions /\ last'.result = "ok") => log' = log
      ]_vars

\* a PAUSE appended after midnight to the session of the day before
C10_Witness ==
    /\ last = Called("pause_work", "ok")
    /\ log # << >>
    /\ log[Len(log)].action = PAUSE
    /\ log[Len(log)].date = tracker.current_date
    /\ tracker.current_date # DateOf(now)

\* C11: once the state is ENDED, every call of start_work, pause_work,
\* resume_work and end_day fails with InvalidTransitionError, the state stays
\* ENDED and work_end_time keeps its value
C11_EndedIsTerminal ==
    [][(tracker.state = ENDED /\ last'.op \in Transitions) =>
          /\ last'.result = "InvalidTransitionError"
          /\ tracker'.state = ENDED
          /\ tracker'.work_end_time = tracker.work_end_time
      ]_vars

\* start_work refused after end_day closed the day
C11_Witness ==
    /\ last = Called("start_work", "InvalidTransitionError")
    /\ tracker.state = ENDED
    /\ tracker.work_end_time # None
    /\ log # << >>
    /\ log[Len(log)].action = END

\* C12: _restore_state on a tracker whose current_date is not today sets
\* current_date to today, state to IDLE, the four instants to None,
\* total_break_seconds to 0 and break_reasons to empty, whatever the state
\* was, and replays no event
C12_RestoreOnNewDayResets ==
    [][(last'.op = "_restore_state" /\ tracker.current_date # DateOf(now)) =>
          /\ tracker' = FreshTracker(DateOf(now))
          /\ log' = log
      ]_vars

\* _restore_state has just cleared a tracker left in a session with a break
\* on an earlier date
C12_Witness ==
    /\ last = Called("_restore_state", "ok")
    /\ tracker = FreshTracker(DateOf(now))
    /\ get_events_for_date(log, DateOf(now)) = << >>
    /\ \E i \in 1..Len(log) :
          /\ log[i].action = PAUSE
          /\ log[i].date < DateOf(now)

\* C13: when the date rolls over under a live tracker the state of the
\* previous date is discarded, so start_work on the new date is not refused
\* by the state guard, whatever state the previous day was left in
C13_StartSucceedsAfterRollover ==
    [][(last'.op = "start_work" /\ tracker.current_date # DateOf(now)) =>
          last'.result # "InvalidTransitionError"
      ]_vars

\* the timestamp of the last event of the tracker's date with one of the
\* given actions, None when there is none
LastInstant(actions) ==
    LET events == get_events_for_date(log, tracker.current_date)
        found == {i \in 1..Len(events) : events[i].action \in actions}
    IN  IF found = {} THEN None
        ELSE fromisoformat(events[CHOOSE i \in found :
                                      \A j \in found : j <= i].timestamp)

\* the instant the pause in progress began: the field pause_work set, or for
\* a tracker that holds none the instant of the PAUSE event
PauseInstant ==
    IF tracker.pause_start_time # None THEN tracker.pause_start_time
    ELSE LastInstant({PAUSE})

\* C14: get_elapsed_work_time() is max(0, (end - work_start_time) -
\* total_break_seconds - p), end being work_end_time when ENDED and now
\* otherwise, p being now minus the start of the pause when PAUSED and 0
\* otherwise; it is 0 when IDLE or work_start_time is unset; never negative
C14_ElapsedWorkTime ==
    LET endInstant == IF tracker.state = ENDED THEN tracker.work_end_time
                      ELSE now
        p == IF tracker.state = PAUSED THEN now - PauseInstant ELSE 0
        claimed == IF tracker.state = IDLE \/ tracker.work_start_time = None
                   THEN 0
                   ELSE Max(0, (endInstant - tracker.work_start_time)
                               - tracker.total_break_seconds - p)
    IN  /\ get_elapsed_work_time(tracker, now) = claimed
        /\ get_elapsed_work_time(tracker, now) >= 0

\* C15: in WORKING, reached live or by restoring from the log,
\* get_current_session_time() is now minus the instant of the most recent
\* START or RESUME; in every other state it is 0
C15_CurrentSessionTime ==
    (~drifted) =>
        get_current_session_time(tracker, now) =
            IF tracker.state = WORKING
            THEN now - LastInstant({START, RESUME})
            ELSE 0

\* C16: can_start, can_pause, can_resume and can_end are true exactly when
\* start_work, pause_work, resume_work and end_day pass their state guard
\* (IDLE; WORKING; PAUSED; WORKING or PAUSED), and asking them changes no
\* tracker field and appends no event
C16_PredicatesMirrorGuards ==
    [][/\ last'.op = "start_work" =>
            (can_start(tracker) <=> last'.result # "InvalidTransitionError")
       /\ last'.op = "pause_work" =>
            (can_pause(tracker) <=> last'.result # "InvalidTransitionError")
       /\ last'.op = "resume_work" =>
            (can_resume(tracker) <=> last'.result # "InvalidTransitionError")
       /\ last'.op = "end_day" =>
            (can_end(tracker) <=> last'.result # "InvalidTransitionError")
       /\ last'.op = "_update_button_states" =>
            /\ last'.enabled = [start |-> tracker.state = IDLE,
                                pause |-> tracker.state = WORKING,
                                resume |-> tracker.state = PAUSED,
                                end |-> tracker.state \in {WORKING, PAUSED}]
            /\ tracker' = tracker
            /\ log' = log
      ]_vars

\* the predicates asked during a break: only resume and end are offered
C16_Witness ==
    /\ last.op = "_update_button_states"
    /\ tracker.state = PAUSED
    /\ last.enabled = [start |-> FALSE, pause |-> FALSE,
                       resume |-> TRUE, end |-> TRUE]
    /\ log # << >>

\* C17: reset_state(), in any state, sets state to IDLE, the four instants to
\* None, total_break_seconds to 0 and break_reasons to empty, and leaves the
\* event log as it was
C17_ResetClearsTrackerOnly ==
    [][last'.op = "reset_state" =>
          /\ tracker'.state = IDLE
          /\ tracker'.work_start_time = None
          /\ tracker'.work_end_time = None
          /\ tracker'.pause_start_time = None
          /\ tracker'.interval_start_time = None
          /\ tracker'.total_break_seconds = 0
          /\ tracker'.break_reasons = << >>
          /\ log' = log
      ]_vars

\* reset_state called with a started session with a break in the log
C17_Witness ==
    /\ last = Called("reset_state", "ok")
    /\ tracker.state = IDLE
    /\ tracker.break_reasons = << >>
    /\ \E i \in 1..Len(log) :
          /\ log[i].action = PAUSE
          /\ log[i].date = tracker.current_date

\* a day's log that is legal and closed by END
LegalComplete(events) ==
    /\ events # << >>
    /\ LegalFrom(IDLE, events)
    /\ events[Len(events)].action = END

\* the instant an event carries
InstantOf(event) == fromisoformat(event.timestamp)

\* the sum, over the PAUSE events from position i on, of the next event's
\* instant minus the PAUSE's
RECURSIVE BreakSum(_, _)
BreakSum(events, i) ==
    IF i >= Len(events) THEN 0
    ELSE (IF events[i].action = PAUSE
          THEN InstantOf(events[i + 1]) - InstantOf(events[i])
          ELSE 0) + BreakSum(events, i + 1)

IsPause(event) == event.action = PAUSE

\* the reasons of the PAUSE events, in log order
PauseReasons(events) ==
    LET pauses == SelectSeq(events, IsPause)
    IN  [i \in 1..Len(pauses) |-> pauses[i].reason]

\* C18: for a date whose log is legal and complete, get_stats_for_date gives
\* total_span = END - START, break_seconds = the sum over the PAUSE events of
\* the next RESUME or END instant minus the PAUSE instant, work_seconds =
\* total_span - break_seconds, break_count = the number of PAUSE events and
\* break_reasons = the PAUSE reasons in log order
C18_StatsOfCompleteDay ==
    \A date \in Dates :
        \A events \in {get_events_for_date(log, date)} :
            LegalComplete(events) =>
                \A stats \in {get_stats_for_date(log, date)} :
                    LET span == InstantOf(events[Len(events)])
                                - InstantOf(events[1])
                    IN  /\ stats.total_span_seconds = span
                        /\ stats.break_seconds = BreakSum(events, 1)
                        /\ stats.work_seconds = span - BreakSum(events, 1)
                        /\ stats.break_count = Len(SelectSeq(events, IsPause))
                        /\ stats.break_reasons = PauseReasons(events)

\* the statistics asked for a day of START, PAUSE, RESUME, END at four
\* instants
C18_Witness ==
    /\ last = Called("get_stats_for_date", "ok")
    /\ LET events == get_events_for_date(log, 0)
       IN  /\ LegalComplete(events)
           /\ Len(events) = 4
           /\ events[2].action = PAUSE
           /\ events[3].action = RESUME
           /\ \A i \in 1..3 : InstantOf(events[i]) < InstantOf(events[i + 1])
    /\ get_stats_for_date(log, 0).break_seconds > 0
    /\ get_stats_for_date(log, 0).work_seconds > 0

\* no END among the events
NoEnd(events) == \A i \in 1..Len(events) : events[i].action # END

\* no PAUSE among the events is followed by a RESUME
NoClosedPause(events) ==
    \A i, j \in 1..Len(events) :
        ~(i < j /\ events[i].action = PAUSE /\ events[j].action = RESUME)

\* C19: for a date whose log has no END get_stats_for_date gives
\* total_span_seconds 0 and work_seconds 0, and break_seconds 0 when no
\* PAUSE was closed by a RESUME; for a date with no events it gives zero
\* durations, break_count 0, no break_reasons and unset first_start and
\* last_end
C19_StatsOfOpenOrEmptyDay ==
    \A date \in Dates :
        \A events \in {get_events_for_date(log, date)} :
        \A stats \in {get_stats_for_date(log, date)} :
            /\ NoEnd(events) =>
                /\ stats.total_span_seconds = 0
                /\ stats.work_seconds = 0
                /\ NoClosedPause(events) => stats.break_seconds = 0
            /\ events = << >> =>
                /\ stats.total_span_seconds = 0
                /\ stats.break_seconds = 0
                /\ stats.work_seconds = 0
                /\ stats.break_count = 0
                /\ stats.break_reasons = << >>
                /\ stats.first_start = None
                /\ stats.last_end = None

\* the statistics asked during a break that began after the start, with a
\* later date still empty
C19_Witness ==
    /\ last = Called("get_stats_for_date", "ok")
    /\ tracker.state = PAUSED
    /\ LET events == get_events_for_date(log, 0)
       IN  /\ Len(events) = 2
           /\ events[1].action = START
           /\ events[2].action = PAUSE
           /\ InstantOf(events[1]) < InstantOf(events[2])
           /\ InstantOf(events[2]) < now
    /\ get_events_for_date(log, 1) = << >>

\* C20: get_stats_for_date and get_stats_for_range only read the log:
\* called in any tracker state they change no tracker field and append no
\* event
C20_StatsReadOnly ==
    [][last'.op \in {"get_stats_for_date", "get_stats_for_range"} =>
          /\ tracker' = tracker
          /\ log' = log
      ]_vars

\* the range statistics asked while the tracker works again after a break
C20_Witness ==
    /\ last = Called("get_stats_for_range", "ok")
    /\ tracker.state = WORKING
    /\ tracker.total_break_seconds > 0
    /\ get_stats_for_date(log, tracker.current_date).break_seconds > 0

\* f[a] + ... + f[b]
RECURSIVE SumFrom(_, _, _)
SumFrom(f, a, b) ==
    IF a > b THEN 0 ELSE f[a] + SumFrom(f, a + 1, b)

\* what get_stats_for_date returns for each date, from the log now
DayStats == [date \in Dates |-> get_stats_for_date(log, date)]

\* C21: for every date range get_stats_for_range returns work_seconds,
\* break_seconds and break_count equal to the sums, over the dates of the
\* range, of what get_stats_for_date returns, dates whose session has not
\* ended included
C21_RangeSumsDays ==
    \A a, b \in Dates :
        a <= b =>
            LET range == get_stats_for_range(log, a, b)
            IN  /\ range.work_seconds =
                       SumFrom([d \in Dates |-> DayStats[d].work_seconds], a, b)
                /\ range.break_seconds =
                       SumFrom([d \in Dates |-> DayStats[d].break_seconds], a, b)
                /\ range.break_count =
                       SumFrom([d \in Dates |-> DayStats[d].break_count], a, b)

\* the per-date values of a TimeStats instant that are set, over a range
SetValues(f, a, b) == {f[d] : d \in {x \in a..b : f[x] # None}}

\* the smallest and the largest element of a set of instants, None when the
\* set is empty
Earliest(S) == IF S = {} THEN None ELSE CHOOSE x \in S : \A y \in S : x <= y
Latest(S) == IF S = {} THEN None ELSE CHOOSE x \in S : \A y \in S : x >= y

\* C22: for every date range get_stats_for_range returns first_start equal
\* to the earliest first_start get_stats_for_date reports for a date of the
\* range, and last_end equal to the latest last_end; both unset when no date
\* of the range has one
C22_RangeExtremes ==
    \A a, b \in Dates :
        a <= b =>
            LET range == get_stats_for_range(log, a, b)
            IN  /\ range.first_start =
                       Earliest(SetValues([d \in Dates |-> DayStats[d].first_start], a, b))
                /\ range.last_end =
                       Latest(SetValues([d \in Dates |-> DayStats[d].last_end], a, b))

\* C23: for every date range the TimeStats of get_stats_for_range has
\* total_span_seconds = work_seconds + break_seconds, which is not the
\* distance between first_start and last_end
C23_RangeSpanIsWorkPlusBreak ==
    \A a, b \in Dates :
        a <= b =>
            \A range \in {get_stats_for_range(log, a, b)} :
                range.total_span_seconds =
                    range.work_seconds + range.break_seconds

\* the range statistics asked over days whose earliest START and latest END
\* lie further apart than the span reported
C23_Witness ==
    /\ last = Called("get_stats_for_range", "ok")
    /\ LET range == get_stats_for_range(log, 0, DateOf(MaxNow))
       IN  /\ range.first_start # None
           /\ range.last_end # None
           /\ range.total_span_seconds < range.last_end - range.first_start
           /\ range.total_span_seconds > 0

\* the three durations of a TimeStats are not negative
DurationsNonNegative(stats) ==
    /\ stats.total_span_seconds >= 0
    /\ stats.break_seconds >= 0
    /\ stats.work_seconds >= 0

\* C24: every duration of every TimeStats returned by get_stats_for_date or
\* get_stats_for_range is >= 0, for every log reachable through the tracker's
\* operations, reset_state followed by start_work included
C24_DurationsNonNegative ==
    /\ \A date \in Dates : DurationsNonNegative(get_stats_for_date(log, date))
    /\ \A a, b \in Dates :
          a <= b => DurationsNonNegative(get_stats_for_range(log, a, b))

\* C25: transitions on one tracker are serialized: when two callers invoke
\* them concurrently the guard, the append and the state update of one call
\* are not interleaved with the other's, so once the calls have returned the
\* log of every date is a legal sequence
C25_ConcurrentCallsSerialized ==
    (\A c \in Callers : Idle(c)) =>
        \A date \in Dates : LegalFrom(IDLE, get_events_for_date(log, date))

\* the events appended with a date, in append order
AppendedWith(date) == SelectSeq(log, LAMBDA e : e.date = date)

\* C26: with the events appended in real time under a non-decreasing clock,
\* get_events_for_date(date) returns exactly the events appended with that
\* date, in append order, and their timestamps do not decrease along the
\* sequence
C26_FetchByDateInAppendOrder ==
    \A date \in Dates :
        \A events \in {get_events_for_date(log, date)} :
            /\ events = AppendedWith(date)
            /\ \A i \in 1..(Len(events) - 1) :
                  InstantOf(events[i]) <= InstantOf(events[i + 1])

\* a store holding the events of two dates, the earlier date's appended at
\* different instants
C26_Witness ==
    /\ Len(AppendedWith(0)) >= 2
    /\ Len(AppendedWith(1)) >= 1
    /\ InstantOf(AppendedWith(0)[1]) < InstantOf(AppendedWith(0)[2])
    /\ get_events_for_date(log, 1) # << >>

\* C27: in every reachable log every PAUSE event carries a reason that is
\* non-empty and has no leading or trailing whitespace, and no START, RESUME
\* or END event carries a reason
C27_ReasonsOnPauseOnly ==
    \A i \in 1..Len(log) :
        IF log[i].action = PAUSE
        THEN /\ log[i].reason # NoReason
             /\ Head(log[i].reason) # SP
             /\ log[i].reason[Len(log[i].reason)] # SP
        ELSE log[i].reason = NoReason

\* a PAUSE stored with its reason between a START and a RESUME that carry
\* none
C27_Witness ==
    /\ last = Called("resume_work", "ok")
    /\ Len(log) = 3
    /\ log[2].action = PAUSE
    /\ log[2].reason = <<"a">>
    /\ log[3].action = RESUME
    /\ log[3].reason = NoReason

\* C28: pause_work applies the state guard before the reason check: with an
\* empty or whitespace-only reason in IDLE, PAUSED or ENDED it fails with
\* InvalidTransitionError, not with ValueError
C28_StateGuardBeforeReasonCheck ==
    [][\A reason \in Reasons :
          (/\ tracker.state \in {IDLE, PAUSED, ENDED}
           /\ Blank(reason)
           /\ last'.op = "pause_work"
           /\ pause_work_with(reason)) =>
              last'.result = "InvalidTransitionError"
      ]_vars

\* pause_work refused during a break
C28_Witness ==
    /\ last = Called("pause_work", "InvalidTransitionError")
    /\ tracker.state = PAUSED
    /\ tracker.pause_start_time # None

\* C29: whenever resume_work succeeds, the PAUSED state having been reached
\* live or by replaying a log that ends in PAUSE, total_break_seconds grows
\* by exactly now minus the instant of the pending PAUSE, pause_start_time
\* becomes unset and interval_start_time becomes now
C29_ResumeAddsPendingBreak ==
    [][(/\ last'.op = "resume_work"
        /\ last'.result = "ok"
        /\ now' = now) =>
          /\ tracker'.total_break_seconds =
                 tracker.total_break_seconds + (now - PauseInstant)
          /\ tracker'.pause_start_time = None
          /\ tracker'.interval_start_time = now
      ]_vars

\* C30: while the state is PAUSED and no transition occurs,
\* get_elapsed_work_time() does not change as time advances, for a pause
\* entered live and for a PAUSED state restored from the log after a restart
C30_ElapsedFrozenWhilePaused ==
    [][(last'.op = "tick" /\ tracker.state = PAUSED) =>
          get_elapsed_work_time(tracker', now') =
              get_elapsed_work_time(tracker, now)
      ]_vars


\* the break_reasons get_stats_for_date returns for the dates a..b, one date
\* after the other
RECURSIVE ReasonsFrom(_, _)
ReasonsFrom(a, b) ==
    IF a > b THEN << >>
    ELSE get_stats_for_date(log, a).break_reasons \o ReasonsFrom(a + 1, b)

\* C31: for every date range, the break_reasons a call of get_stats_for_range
\* returns is the concatenation, in ascending date order, of the break_reasons lists
\* get_stats_for_date returns for each date of the range
C31_RangeReasonsConcatenateDays ==
    last.op = "get_stats_for_range" =>
        \A a, b \in Dates :
            a <= b =>
                \A range \in {get_stats_for_range(log, a, b)} :
                    range.break_reasons = ReasonsFrom(a, b)

\* the range statistics asked over two dates that each hold a pause, the two
\* pauses carrying different reasons
C31_Witness ==
    /\ last = Called("get_stats_for_range", "ok")
    /\ \E d1, d2 \in Dates :
           /\ d1 < d2
           /\ \A r1 \in {get_stats_for_date(log, d1).break_reasons} :
              \A r2 \in {get_stats_for_date(log, d2).break_reasons} :
                  /\ r1 # << >>
                  /\ r2 # << >>
                  /\ r1 # r2
                  /\ get_stats_for_range(log, d1, d2).break_reasons = r1 \o r2


\* the number of START events the log holds for a date
StartsOn(date) ==
    Len(SelectSeq(get_events_for_date(log, date),
                  LAMBDA e : e.action = START))

\* C32: when a date's log holds more than one START, get_stats_for_date and
\* the bucket replay of get_stats_for_range both take the last START as the
\* date's first_start, so both give the same span and work_seconds for that
\* date
C32_LastStartInBothReplays ==
    \A date \in Dates :
        StartsOn(date) > 1 =>
            \A day \in {get_stats_for_date(log, date)} :
            \A range \in {get_stats_for_range(log, date, date)} :
                /\ range.work_seconds = day.work_seconds
                /\ range.total_span_seconds = day.total_span_seconds


\* C33: for every session on one date, the process restarted at any point
\* and the restored session resumed included, once the state is ENDED
\* get_elapsed_work_time() equals get_stats_for_date(current_date).work_seconds
\* and total_break_seconds equals its break_seconds, the instants held in
\* memory being the timestamps of the events appended
C33_EndedTrackerMatchesStats ==
    (/\ tracker.state = ENDED
     /\ ~drifted
     /\ LegalComplete(get_events_for_date(log, tracker.current_date))) =>
        \A day \in {get_stats_for_date(log, tracker.current_date)} :
            /\ get_elapsed_work_time(tracker, now) = day.work_seconds
            /\ tracker.total_break_seconds = day.break_seconds


\* C34: immediately after a fresh tracker restores from a legal log of today,
\* its total_break_seconds is the break_seconds get_stats_for_date(today)
\* reports and its break_reasons is the break_reasons it reports
C34_RestoredBreaksMatchStats ==
    (/\ last = Called("WorkTracker", "ok")
     /\ LegalFrom(IDLE, get_today_events(log, now))) =>
        \A day \in {get_stats_for_date(log, DateOf(now))} :
            /\ tracker.total_break_seconds = day.break_seconds
            /\ tracker.break_reasons = day.break_reasons

\* a fresh tracker has restored from a log of today that holds a closed
\* break and a second pause
C34_Witness ==
    /\ last = Called("WorkTracker", "ok")
    /\ LegalFrom(IDLE, get_today_events(log, now))
    /\ tracker.current_date = DateOf(now)
    /\ tracker.total_break_seconds > 0
    /\ Len(tracker.break_reasons) = 2


\* C35: in every reachable state pause_start_time is set if and only if the
\* state is PAUSED
C35_PauseStartIffPaused ==
    (tracker.pause_start_time # None) <=> (tracker.state = PAUSED)

\* C36: in every reachable state interval_start_time is set if and only if
\* the state is WORKING, whether WORKING was reached by start_work, by
\* resume_work or by restoring a log
C36_IntervalStartIffWorking ==
    (tracker.interval_start_time # None) <=> (tracker.state = WORKING)


\* C37: in every reachable state whose state is IDLE, work_start_time,
\* work_end_time, pause_start_time and interval_start_time are unset,
\* total_break_seconds is 0 and break_reasons is empty; so the session a
\* successful start_work begins holds no break time and no reasons
C37_IdleIsBlank ==
    /\ tracker.state = IDLE =>
          /\ tracker.work_start_time = None
          /\ tracker.work_end_time = None
          /\ tracker.pause_start_time = None
          /\ tracker.interval_start_time = None
          /\ tracker.total_break_seconds = 0
          /\ tracker.break_reasons = << >>
    /\ last = Called("start_work", "ok") =>
          /\ tracker.total_break_seconds = 0
          /\ tracker.break_reasons = << >>

\* start_work has begun a session after an earlier session that had a closed
\* break
C37_Witness ==
    /\ last = Called("start_work", "ok")
    /\ tracker.state = WORKING
    /\ Len(log) >= 4
    /\ log[2].action = PAUSE
    /\ log[3].action \in {RESUME, END}
    /\ InstantOf(log[3]) > InstantOf(log[2])
    /\ log[Len(log)].action = START


\* C38: every TimeStats get_stats_for_date or get_stats_for_range returns
\* has break_count equal to the length of its break_reasons, for every log
\* the tracker's operations can write, ranges holding a date whose session
\* has not ended included
C38_BreakCountIsReasonCount ==
    /\ \A date \in Dates :
           \A day \in {get_stats_for_date(log, date)} :
               day.break_count = Len(day.break_reasons)
    /\ \A a, b \in Dates :
           a <= b =>
               \A range \in {get_stats_for_range(log, a, b)} :
                   range.break_count = Len(range.break_reasons)


\* the date of the most recent START of the log
SessionDate ==
    LET starts == {i \in 1..Len(log) : log[i].action = START}
    IN  IF starts = {} THEN None
        ELSE log[CHOOSE i \in starts : \A j \in starts : j <= i].date

\* C39: all events of one session carry the same date: every PAUSE, RESUME
\* and END appended after a successful start_work is stored under the date
\* that start_work recorded, which the tracker keeps as current_date, also
\* when the calendar date has changed since
C39_SessionEventsShareDate ==
    [][(/\ last'.op \in {"pause_work", "resume_work", "end_day"}
        /\ last'.result = "ok") =>
          /\ Len(log') = Len(log) + 1
          /\ tracker'.current_date = tracker.current_date
          /\ \A date \in {SessionDate} :
                 /\ log'[Len(log')].date = date
                 /\ tracker.current_date = date
      ]_vars

\* a session started on one date was ended on the next: the END is stored
\* under the date of its START while its timestamp lies in the next date
C39_Witness ==
    /\ last = Called("end_day", "ok")
    /\ Len(log) >= 2
    /\ log[Len(log)].action = END
    /\ log[Len(log)].date = log[1].date
    /\ log[1].action = START
    /\ DateOf(InstantOf(log[Len(log)])) > log[Len(log)].date


\* C40: once the state is ENDED, get_elapsed_work_time() is
\* max(0, (work_end_time - work_start_time) - total_break_seconds) and keeps
\* its value as time advances; a pause open when end_day is called is added
\* to total_break_seconds, and so subtracted, exactly once
C40_EndedElapsedConstant ==
    [][/\ tracker'.state = ENDED =>
              get_elapsed_work_time(tracker', now') =
                  Max(0, (tracker'.work_end_time - tracker'.work_start_time)
                         - tracker'.total_break_seconds)
       /\ (tracker.state = ENDED /\ tracker' = tracker) =>
              get_elapsed_work_time(tracker', now') =
                  get_elapsed_work_time(tracker, now)
       /\ (/\ last'.op = "end_day"
           /\ last'.result = "ok"
           /\ tracker.state = PAUSED
           /\ now' = now) =>
              tracker'.total_break_seconds =
                  tracker.total_break_seconds + (now - PauseInstant)
      ]_vars

====
